---- MODULE Spec2Model ----
(***************************************************************************)
(* A model of src/server.py: the wire codec (ProtocolHandler), the command *)
(* dispatcher and the six store operations (Server), and the loop that     *)
(* serves one connection (Server.connection_handler), run as gevent        *)
(* greenlets over one shared dictionary.                                   *)
(*                                                                         *)
(* Bytes are sequences of one-character strings.  A Python value is a      *)
(* record [t, s, n, xs]: t is the Python type, s the characters of a str   *)
(* (or the message of an Error), n the number of an int, xs the elements   *)
(* of a list (for a dict: key, value, key, value, ... in insertion order). *)
(***************************************************************************)
EXTENDS Integers, Sequences, FiniteSets, TLC

\* ------------------------------------------------------------------ bounds
\* Frames the clients send, over all connections.
MaxFrames == 3
\* Values written with write_response, over all connections.
MaxWrites == 2

Conns == {"c1", "c2"}
Tasks == {"t1", "t2"}
\* The interpreters gevent runs on; the repository pins neither.
Interpreters == {2, 3}

\* ------------------------------------------------------------ characters
CR == "\r"
LF == "\n"
SP == " "

Tags == {"+", "-", ":", "$", "*", "%"}

Digits == <<"0", "1", "2", "3", "4", "5", "6", "7", "8", "9">>

IsDigit(ch) == \E i \in 1..10 : Digits[i] = ch

DigitVal(ch) == (CHOOSE i \in 1..10 : Digits[i] = ch) - 1

Lower == <<"a","b","c","d","e","f","g","h","i","j","k","l","m",
           "n","o","p","q","r","s","t","u","v","w","x","y","z">>
Upper == <<"A","B","C","D","E","F","G","H","I","J","K","L","M",
           "N","O","P","Q","R","S","T","U","V","W","X","Y","Z">>

\* str.upper() on one character
UpperCh(ch) ==
    IF \E i \in 1..26 : Lower[i] = ch
    THEN Upper[CHOOSE i \in 1..26 : Lower[i] = ch]
    ELSE ch

\* str.upper()
StrUpper(s) == [i \in 1..Len(s) |-> UpperCh(s[i])]

\* ---------------------------------------------------------- Python values
PStr(s)    == [t |-> "str",   s |-> s,    n |-> 0, xs |-> <<>>]
PInt(n)    == [t |-> "int",   s |-> <<>>, n |-> n, xs |-> <<>>]
PErr(m)    == [t |-> "Error", s |-> m,    n |-> 0, xs |-> <<>>]
PNone      == [t |-> "None",  s |-> <<>>, n |-> 0, xs |-> <<>>]
PList(xs)  == [t |-> "list",  s |-> <<>>, n |-> 0, xs |-> xs]
PDict(kvs) == [t |-> "dict",  s |-> <<>>, n |-> 0, xs |-> kvs]
\* a value of a type _write has no branch for (a float, an object)
PObject    == [t |-> "object", s |-> <<>>, n |-> 0, xs |-> <<>>]

\* hash(v) succeeds: a list or a dict cannot be a dictionary key
Hashable(v) == v.t \notin {"list", "dict"}

\* What a call gives: a value returned, or an exception raised.
Return(v)     == [k |-> "val", v |-> v,     e |-> "",  msg |-> <<>>]
Raise(e, msg) == [k |-> "exc", v |-> PNone, e |-> e,   msg |-> msg]

\* ------------------------------------------------------- reading a stream
\* What a read of the connection's file object gives: [k |-> "ok", line, pos],
\* or "block" when the bytes are not there yet and the peer has not closed.
Blocked == [k |-> "block", line |-> <<>>, pos |-> 0]

\* socket_file.readline() from position pos: through the first "\n", or what is
\* left when the stream has ended.
ReadLine(buf, pos, eof) ==
    LET nl == {i \in pos..Len(buf) : buf[i] = LF} IN
    IF nl # {}
    THEN LET j == CHOOSE i \in nl : \A m \in nl : i <= m
         IN  [k |-> "ok", line |-> SubSeq(buf, pos, j), pos |-> j + 1]
    ELSE IF eof
         THEN [k |-> "ok", line |-> SubSeq(buf, pos, Len(buf)), pos |-> Len(buf) + 1]
         ELSE Blocked

\* socket_file.read(n): n bytes, or what is left when the stream has ended; a
\* negative n reads to the end of the stream.
ReadN(buf, pos, n, eof) ==
    IF n >= 0 /\ pos + n - 1 <= Len(buf)
    THEN [k |-> "ok", line |-> SubSeq(buf, pos, pos + n - 1), pos |-> pos + n]
    ELSE IF eof
         THEN [k |-> "ok", line |-> SubSeq(buf, pos, Len(buf)), pos |-> Len(buf) + 1]
         ELSE Blocked

\* line.rstrip('\r\n'): every trailing "\r" and "\n" goes, not one terminator only
RECURSIVE RStrip(_)
RStrip(s) ==
    IF s # <<>> /\ s[Len(s)] \in {CR, LF}
    THEN RStrip(SubSeq(s, 1, Len(s) - 1))
    ELSE s

\* s[:-2]
DropLast2(s) == SubSeq(s, 1, Len(s) - 2)

\* s.strip() of blanks, as int() does before it parses
RECURSIVE StripSp(_)
StripSp(s) ==
    IF s # <<>> /\ Head(s) = SP THEN StripSp(Tail(s))
    ELSE IF s # <<>> /\ s[Len(s)] = SP THEN StripSp(SubSeq(s, 1, Len(s) - 1))
    ELSE s

RECURSIVE ParseNat(_, _)
ParseNat(s, acc) ==
    IF s = <<>> THEN acc ELSE ParseNat(Tail(s), acc * 10 + DigitVal(Head(s)))

\* int(s) succeeds: an optional sign and at least one digit, blanks around it
IntOk(s) ==
    LET u == StripSp(s)
        d == IF u # <<>> /\ Head(u) \in {"-", "+"} THEN Tail(u) ELSE u
    IN  d # <<>> /\ \A i \in 1..Len(d) : IsDigit(d[i])

\* int(s), where IntOk(s)
ParseInt(s) ==
    LET u == StripSp(s) IN
    IF Head(u) = "-" THEN 0 - ParseNat(Tail(u), 0)
    ELSE IF Head(u) = "+" THEN ParseNat(Tail(u), 0)
    ELSE ParseNat(u, 0)

\* ----------------------------------------------------------------- decode
BadRequest == <<"B","a","d"," ","R","e","q","u","e","s","t">>

\* What handle_request gives: [k |-> "val", v, pos], [k |-> "exc", e, msg, pos]
\* or [k |-> "block"] while the bytes of the value have not all arrived.
DVal(v, pos)      == [k |-> "val", v |-> v, e |-> "", msg |-> <<>>, pos |-> pos]
DExc(e, msg, pos) == [k |-> "exc", v |-> PNone, e |-> e, msg |-> msg, pos |-> pos]
DBlock            == [k |-> "block", v |-> PNone, e |-> "", msg |-> <<>>, pos |-> 0]

\* dict(zip(elements[::2], elements[1::2])) as key, value, key, value, ...: a
\* key met again keeps its place and takes the later value.
RECURSIVE DictPut(_, _, _)
DictPut(d, key, val) ==
    IF d = <<>> THEN <<key, val>>
    ELSE IF d[1] = key THEN <<key, val>> \o SubSeq(d, 3, Len(d))
    ELSE <<d[1], d[2]>> \o DictPut(SubSeq(d, 3, Len(d)), key, val)

RECURSIVE DictOf(_, _)
DictOf(elements, d) ==
    IF Len(elements) < 2 THEN d
    ELSE DictOf(SubSeq(elements, 3, Len(elements)),
                DictPut(d, elements[1], elements[2]))

\* Every key of elements[::2] can be hashed.
KeysHashable(elements) ==
    \A i \in 1..Len(elements) : i % 2 = 1 => Hashable(elements[i])

RECURSIVE handle_request(_, _, _, _), handle_elements(_, _, _, _, _, _)

\* ProtocolHandler.handle_request with the handle_* decoders, on interpreter py,
\* from position pos of the bytes buf received so far.
handle_request(buf, pos, eof, py) ==
    IF pos > Len(buf)
    THEN IF eof THEN DExc("Disconnect", <<>>, pos) ELSE DBlock
    ELSE
    LET first_byte == buf[pos] IN
    IF first_byte \notin Tags
    THEN DExc("CommandError", BadRequest, pos + 1)
    ELSE
    LET ln == ReadLine(buf, pos + 1, eof) IN
    IF ln.k = "block" THEN DBlock
    \* Python 3: readline() gives bytes, and bytes.rstrip('\r\n') raises
    ELSE IF py = 3 THEN DExc("TypeError", <<>>, ln.pos)
    ELSE
    LET text == RStrip(ln.line) IN
    CASE first_byte = "+" -> DVal(PStr(text), ln.pos)
      [] first_byte = "-" -> DVal(PErr(text), ln.pos)
      [] first_byte = ":" ->
            IF IntOk(text) THEN DVal(PInt(ParseInt(text)), ln.pos)
            ELSE DExc("ValueError", <<>>, ln.pos)
      [] first_byte = "$" ->
            IF ~IntOk(text) THEN DExc("ValueError", <<>>, ln.pos)
            ELSE LET length == ParseInt(text) IN
                 IF length = -1 THEN DVal(PNone, ln.pos)
                 ELSE LET rd == ReadN(buf, ln.pos, length + 2, eof) IN
                      IF rd.k = "block" THEN DBlock
                      ELSE DVal(PStr(DropLast2(rd.line)), rd.pos)
      [] first_byte = "*" ->
            IF ~IntOk(text) THEN DExc("ValueError", <<>>, ln.pos)
            ELSE LET r == handle_elements(buf, ln.pos, eof, py, ParseInt(text), <<>>) IN
                 IF r.k = "val" THEN DVal(PList(r.v.xs), r.pos) ELSE r
      [] first_byte = "%" ->
            IF ~IntOk(text) THEN DExc("ValueError", <<>>, ln.pos)
            ELSE LET r == handle_elements(buf, ln.pos, eof, py, ParseInt(text) * 2, <<>>) IN
                 IF r.k # "val" THEN r
                 ELSE IF ~KeysHashable(r.v.xs) THEN DExc("TypeError", <<>>, r.pos)
                 ELSE DVal(PDict(DictOf(r.v.xs, <<>>)), r.pos)

\* [self.handle_request(socket_file) for _ in range(n)]: the first element that
\* raises ends the comprehension.
handle_elements(buf, pos, eof, py, n, acc) ==
    IF n <= 0 THEN DVal(PList(acc), pos)
    ELSE LET r == handle_request(buf, pos, eof, py) IN
         IF r.k # "val" THEN r
         ELSE handle_elements(buf, r.pos, eof, py, n - 1, Append(acc, r.v))

\* ----------------------------------------------------------------- encode
\* '%s' % n for an int
RECURSIVE NatToStr(_)
NatToStr(n) ==
    IF n < 10 THEN <<Digits[n + 1]>>
    ELSE NatToStr(n \div 10) \o <<Digits[(n % 10) + 1]>>

IntToStr(n) == IF n < 0 THEN <<"-">> \o NatToStr(0 - n) ELSE NatToStr(n)

\* '%s' % data for a bytes object on Python 3: its repr, b'...'
RECURSIVE BytesEscape(_, _)
BytesEscape(s, quote) ==
    IF s = <<>> THEN <<>>
    ELSE LET ch == Head(s)
             out == CASE ch = CR -> <<"\\", "r">>
                      [] ch = LF -> <<"\\", "n">>
                      [] ch = "\\" -> <<"\\", "\\">>
                      [] ch = quote -> <<"\\", ch>>
                      [] OTHER -> <<ch>>
         IN  out \o BytesEscape(Tail(s), quote)

BytesRepr(s) ==
    LET has(q) == \E i \in 1..Len(s) : s[i] = q
        quote == IF has("'") /\ ~has("\"") THEN "\"" ELSE "'"
    IN  <<"b", quote>> \o BytesEscape(s, quote) \o <<quote>>

\* '%s' % Error.message: Error is the namedtuple class, so this is the text of
\* the class's field descriptor, the same for every Error whatever message it
\* carries: a property object on Python 2 (its address left out), a
\* _tuplegetter on Python 3.
PropertyObject == <<"<","p","r","o","p","e","r","t","y"," ","o","b","j","e","c","t",">">>
TupleGetter == <<"_","t","u","p","l","e","g","e","t","t","e","r","(","0",","," ","'",
                 "A","l","i","a","s"," ","f","o","r"," ","f","i","e","l","d"," ",
                 "n","u","m","b","e","r"," ","0","'",")">>
ErrorMessageAttr(py) == IF py = 3 THEN TupleGetter ELSE PropertyObject

UnrecognizedType == <<"u","n","r","e","c","o","g","n","i","z","e","d"," ","t","y","p","e">>

\* What _write gives: the bytes it appended to the buffer, and the exception
\* when it raised.
WOk(bytes)   == [k |-> "val", bytes |-> bytes, e |-> "", msg |-> <<>>]
WExc(e, msg) == [k |-> "exc", bytes |-> <<>>, e |-> e, msg |-> msg]

RECURSIVE _write(_, _), write_items(_, _, _)

\* ProtocolHandler._write on interpreter py
_write(data, py) ==
    CASE data.t = "str" ->
            WOk(<<"$">> \o NatToStr(Len(data.s)) \o <<CR, LF>>
                \o (IF py = 3 THEN BytesRepr(data.s) ELSE data.s) \o <<CR, LF>>)
      [] data.t = "int" -> WOk(<<":">> \o IntToStr(data.n) \o <<CR, LF>>)
      [] data.t = "Error" -> WOk(<<"-">> \o ErrorMessageAttr(py) \o <<CR, LF>>)
      [] data.t = "list" ->
            write_items(data.xs, py, <<"*">> \o NatToStr(Len(data.xs)) \o <<CR, LF>>)
      [] data.t = "dict" ->
            write_items(data.xs, py, <<"%">> \o NatToStr(Len(data.xs) \div 2) \o <<CR, LF>>)
      [] data.t = "None" -> WOk(<<"$", "-", "1", CR, LF>>)
      [] OTHER -> WExc("CommandError", UnrecognizedType)

\* for item in data: self._write(buffer, item); an item that raises leaves in
\* the buffer what was appended before it.
write_items(items, py, acc) ==
    IF items = <<>> THEN WOk(acc)
    ELSE LET w == _write(Head(items), py) IN
         IF w.k # "val" THEN [w EXCEPT !.bytes = acc \o w.bytes]
         ELSE write_items(Tail(items), py, acc \o w.bytes)

\* A mutant of write_response: _write appends to the connection itself.
write_response_unbuffered(data, py) == _write(data, py)

\* ProtocolHandler.write_response: the bytes that reach the connection.  _write
\* fills a BytesIO of its own; socket_file.write is reached only when _write
\* has returned, so an exception of _write leaves the connection untouched.
write_response(data, py) ==
    LET w == _write(data, py) IN
    IF w.k = "val" THEN w ELSE WExc(w.e, w.msg)

\* -------------------------------------------------------------- the store
EmptyKv == [x \in {} |-> PNone]

\* self._kv[key] = value
KvPut(kv, key, value) ==
    [x \in (DOMAIN kv) \cup {key} |-> IF x = key THEN value ELSE kv[x]]

\* del self._kv[key]
KvDel(kv, key) == [x \in (DOMAIN kv) \ {key} |-> kv[x]]

\* self._kv.get(key)
KvGet(kv, key) == IF key \in DOMAIN kv THEN kv[key] ELSE PNone

\* A call of a store method in progress: the method, its arguments, the
\* statement it is at and its local values.
Frame(cmd, args) == [cmd |-> cmd, args |-> args, i |-> 0, acc |-> <<>>]

Running == [k |-> "run", v |-> PNone, e |-> "", msg |-> <<>>]

\* One statement of a store method: the frame and store after it, and out: the
\* value returned, the exception raised, or Running.
StepTo(fr, kv, out) == [fr |-> fr, kv |-> kv, out |-> out]

Unhashable == Raise("TypeError", <<>>)

\* Server.get
get_step(fr, kv) ==
    LET key == fr.args[1] IN
    IF ~Hashable(key) THEN StepTo(fr, kv, Unhashable)
    ELSE StepTo(fr, kv, Return(KvGet(kv, key)))

\* A mutant of set_step: a key already in the store keeps its value.
set_step_keeps_old(fr, kv) ==
    LET key == fr.args[1]
        value == fr.args[2]
    IN  IF ~Hashable(key) THEN StepTo(fr, kv, Unhashable)
        ELSE StepTo(fr, IF key \in DOMAIN kv THEN kv ELSE KvPut(kv, key, value),
                    Return(PInt(1)))

\* Server.set
set_step(fr, kv) ==
    LET key == fr.args[1]
        value == fr.args[2]
    IN  IF ~Hashable(key) THEN StepTo(fr, kv, Unhashable)
        ELSE StepTo(fr, KvPut(kv, key, value), Return(PInt(1)))

\* A mutant of delete_step: 1 is returned for a key that was not there too.
delete_step_always_one(fr, kv) ==
    LET key == fr.args[1] IN
    IF fr.i = 0
    THEN IF ~Hashable(key) THEN StepTo(fr, kv, Unhashable)
         ELSE IF key \in DOMAIN kv THEN StepTo([fr EXCEPT !.i = 1], kv, Running)
         ELSE StepTo(fr, kv, Return(PInt(1)))
    ELSE StepTo(fr, KvDel(kv, key), Return(PInt(1)))

\* Server.delete: the test, then the del
delete_step(fr, kv) ==
    LET key == fr.args[1] IN
    IF fr.i = 0
    THEN IF ~Hashable(key) THEN StepTo(fr, kv, Unhashable)
         ELSE IF key \in DOMAIN kv THEN StepTo([fr EXCEPT !.i = 1], kv, Running)
         ELSE StepTo(fr, kv, Return(PInt(0)))
    ELSE StepTo(fr, KvDel(kv, key), Return(PInt(1)))

\* A mutant of flush_step: the keys are counted after the store is cleared.
flush_step_counts_late(fr, kv) ==
    IF fr.i = 0
    THEN StepTo([fr EXCEPT !.i = 1], EmptyKv, Running)
    ELSE StepTo(fr, kv, Return(PInt(Cardinality(DOMAIN kv))))

\* Server.flush: kvlen = len(self._kv), then clear() and return kvlen
flush_step(fr, kv) ==
    IF fr.i = 0
    THEN StepTo([fr EXCEPT !.i = 1, !.acc = <<PInt(Cardinality(DOMAIN kv))>>], kv, Running)
    ELSE StepTo(fr, EmptyKv, Return(fr.acc[1]))

\* Server.mget: one key of the comprehension, then the list
mget_step(fr, kv) ==
    IF fr.i < Len(fr.args)
    THEN LET key == fr.args[fr.i + 1] IN
         IF ~Hashable(key) THEN StepTo(fr, kv, Unhashable)
         ELSE StepTo([fr EXCEPT !.i = fr.i + 1, !.acc = Append(fr.acc, KvGet(kv, key))],
                     kv, Running)
    ELSE StepTo(fr, kv, Return(PList(fr.acc)))

\* zip(items[::2], items[1::2]) has as many pairs as the shorter slice
NPairs(items) == Len(items) \div 2

\* Server.mset: one pair of the loop, then len(data); on Python 3 data is a zip
\* object, which has no len()
mset_step(fr, kv, py) ==
    IF fr.i < NPairs(fr.args)
    THEN LET key == fr.args[2 * fr.i + 1]
             value == fr.args[2 * fr.i + 2]
         IN  IF ~Hashable(key) THEN StepTo(fr, kv, Unhashable)
             ELSE StepTo([fr EXCEPT !.i = fr.i + 1], KvPut(kv, key, value), Running)
    ELSE IF py = 3 THEN StepTo(fr, kv, Raise("TypeError", <<>>))
    ELSE StepTo(fr, kv, Return(PInt(NPairs(fr.args))))

\* The next statement of the method the frame is in.
OpStep(fr, kv, py) ==
    CASE fr.cmd = "GET" -> get_step(fr, kv)
      [] fr.cmd = "SET" -> set_step(fr, kv)
      [] fr.cmd = "DELETE" -> delete_step(fr, kv)
      [] fr.cmd = "FLUSH" -> flush_step(fr, kv)
      [] fr.cmd = "MGET" -> mget_step(fr, kv)
      [] fr.cmd = "MSET" -> mset_step(fr, kv, py)

\* A method run from its call to its return or raise, nothing in between.
RECURSIVE RunOp(_, _, _)
RunOp(fr, kv, py) ==
    LET st == OpStep(fr, kv, py) IN
    IF st.out.k = "run" THEN RunOp(st.fr, st.kv, py) ELSE st

\* ------------------------------------------------------------- dispatcher
MustBeList == <<"R","e","q","u","e","s","t"," ","m","u","s","t"," ","b","e"," ",
                "l","i","s","t"," ","o","r"," ","s","i","m","p","l","e"," ",
                "s","t","r","i","n","g",".">>
MissingCommand == <<"M","i","s","s","i","n","g"," ","c","o","m","m","a","n","d">>
UnrecognizedCommand == <<"U","n","r","e","c","o","g","n","i","z","e","d"," ",
                         "c","o","m","m","a","n","d",":"," ">>

GET    == <<"G","E","T">>
SET    == <<"S","E","T">>
DELETE == <<"D","E","L","E","T","E">>
FLUSH  == <<"F","L","U","S","H">>
MGET   == <<"M","G","E","T">>
MSET   == <<"M","S","E","T">>

\* Server.get_commands: the names of the table
Commands == {GET, SET, DELETE, FLUSH, MGET, MSET}

CommandName(c) ==
    CASE c = GET -> "GET" [] c = SET -> "SET" [] c = DELETE -> "DELETE"
      [] c = FLUSH -> "FLUSH" [] c = MGET -> "MGET" [] c = MSET -> "MSET"

\* The positional parameters each method takes; mget and mset take *args.
ArityOk(cmd, n) ==
    CASE cmd = "GET" -> n = 1
      [] cmd = "SET" -> n = 2
      [] cmd = "DELETE" -> n = 1
      [] cmd = "FLUSH" -> n = 0
      [] OTHER -> TRUE

Whitespace == {SP, CR, LF}

\* str.split(): the words between runs of whitespace
RECURSIVE Split(_, _, _)
Split(s, word, acc) ==
    IF s = <<>> THEN (IF word = <<>> THEN acc ELSE Append(acc, PStr(word)))
    ELSE IF Head(s) \in Whitespace
         THEN Split(Tail(s), <<>>, IF word = <<>> THEN acc ELSE Append(acc, PStr(word)))
         ELSE Split(Tail(s), Append(word, Head(s)), acc)

\* What get_response does before it calls the method: an exception raised, or
\* [k |-> "call"] with the frame of the call.
Dispatched(fr) == [k |-> "call", v |-> PNone, e |-> "", msg |-> <<>>, fr |-> fr]
NotDispatched(out) == [k |-> out.k, v |-> out.v, e |-> out.e, msg |-> out.msg,
                       fr |-> Frame("", <<>>)]

\* Server.get_response up to the call of the method
get_response(data) ==
    IF data.t \notin {"list", "str"}
    THEN NotDispatched(Raise("CommandError", MustBeList))
    ELSE
    LET args == IF data.t = "list" THEN data.xs ELSE Split(data.s, <<>>, <<>>) IN
    IF args = <<>> THEN NotDispatched(Raise("CommandError", MissingCommand))
    \* data[0].upper(): only a str has it
    ELSE IF args[1].t # "str" THEN NotDispatched(Raise("AttributeError", <<>>))
    ELSE
    LET command == StrUpper(args[1].s) IN
    IF command \notin Commands
    THEN NotDispatched(Raise("CommandError", UnrecognizedCommand \o command))
    \* self._commands[command](*data[1:]): a wrong number of arguments
    ELSE IF ~ArityOk(CommandName(command), Len(args) - 1)
    THEN NotDispatched(Raise("TypeError", <<>>))
    ELSE Dispatched(Frame(CommandName(command), Tail(args)))

\* ================================================================= state
VARIABLES
    py,        \* the interpreter the server runs on
    kv,        \* Server._kv, the one store every handler shares
    \* --- the connections of Spec
    pc,        \* pc[c]: where connection_handler is for connection c
    stream,    \* stream[c]: the bytes the client sent that are not yet read
    eof,       \* eof[c]: the client has closed its side
    data,      \* data[c]: the request decoded last
    out,       \* out[c]: the bytes written to the client
    log,       \* log[c]: what the handler did, in order (history)
    nframes,   \* frames sent so far, over all connections
    \* --- the greenlets of StoreSpec
    tpc,       \* tpc[t]: "ready" at a switch point, "run" inside get_response
    frame,     \* frame[t]: the store method t is in
    req,       \* req[t]: the request t called get_response with
    pre,       \* pre[t]: the store when t made its call (history)
    running,   \* the greenlet that holds the interpreter, or "hub"
    last,      \* the call that ended last (history)
    lastSet,   \* per key, the value of a SET that no later write touched (history)
    \* --- the two ends of a connection in CodecSpec
    sent,      \* sent[c]: the values write_response has written to c (history)
    wrote      \* the call of write_response that ended last (history)

connVars  == <<pc, stream, eof, data, out, log, nframes>>
taskVars  == <<tpc, frame, req, pre, running, last, lastSet>>
codecVars == <<sent, wrote>>
vars      == <<py, kv, pc, stream, eof, data, out, log, nframes,
               tpc, frame, req, pre, running, last, lastSet, sent, wrote>>

\* ---------------------------------------------------------------- inputs
\* The frames a client sends: requests, and bytes that are no request.
FrameGetA    == <<"*","2",CR,LF,"$","3",CR,LF,"G","E","T",CR,LF,"$","1",CR,LF,"a",CR,LF>>
FrameSetA1   == <<"*","3",CR,LF,"$","3",CR,LF,"S","E","T",CR,LF,"$","1",CR,LF,"a",CR,LF,
                  "$","1",CR,LF,"1",CR,LF>>
FrameFoo     == <<"+","F","O","O",CR,LF>>
FrameInt     == <<":","5",CR,LF>>
FrameBadTag  == <<"!","x",CR,LF>>
FrameBadLen  == <<"$","a","b","c",CR,LF>>
FrameShort   == <<"*","2",CR,LF,":","1",CR,LF>>
FrameCut     == <<"$","3",CR,LF,"a","b">>

\* A bulk string, a shape the clients of this repository never send at top level.
FrameBulk    == <<"$","5",CR,LF,"g","e","t"," ","a",CR,LF>>

Frames == {FrameGetA, FrameSetA1, FrameFoo, FrameInt, FrameBadTag, FrameBadLen,
           FrameShort, FrameCut}

\* The requests a greenlet of StoreSpec hands to get_response.
W(ch) == PStr(<<ch>>)
Cmd(name, args) == PList(<<PStr(name)>> \o args)

Requests ==
    { Cmd(GET, <<W("a")>>), Cmd(GET, <<W("b")>>),
      Cmd(SET, <<W("a"), W("1")>>), Cmd(SET, <<W("a"), W("2")>>),
      Cmd(SET, <<W("b"), W("1")>>),
      Cmd(DELETE, <<W("a")>>), Cmd(FLUSH, <<>>),
      Cmd(MGET, <<W("a"), W("b"), W("c")>>), Cmd(MGET, <<>>),
      Cmd(MSET, <<W("a"), W("1"), W("b"), W("2")>>),
      Cmd(MSET, <<W("b"), W("1"), W("b"), W("2")>>),
      Cmd(MSET, <<W("a"), W("2"), W("b")>>),
      Cmd(MSET, <<>>),
      Cmd(GET, <<>>), Cmd(<<"F","O","O">>, <<W("a")>>),
      PStr(<<"g","e","t"," ","a">>), PInt(5), PList(<<>>),
      PList(<<PInt(1)>>), Cmd(SET, <<PList(<<>>), W("1")>>),
      PStr(<<>>), PNone, PErr(<<"x">>), PDict(<<W("a"), W("1")>>),
      Cmd(MSET, <<W("a"), W("1"), PList(<<>>), W("2")>>) }

\* ------------------------------------------------------------------ Init
NoLast == [t |-> "", req |-> PNone, cmd |-> "", args |-> <<>>, out |-> Running,
           pre |-> EmptyKv, post |-> EmptyKv, known |-> EmptyKv]

NoWrite == [c |-> "", v |-> PNone, k |-> "", bytes |-> <<>>]

Init ==
    /\ py \in Interpreters
    /\ kv = EmptyKv
    /\ pc = [c \in Conns |-> "AWAITING_REQUEST"]
    /\ stream = [c \in Conns |-> <<>>]
    /\ eof = [c \in Conns |-> FALSE]
    /\ data = [c \in Conns |-> PNone]
    /\ out = [c \in Conns |-> <<>>]
    /\ log = [c \in Conns |-> <<>>]
    /\ nframes = 0
    /\ tpc = [t \in Tasks |-> "ready"]
    /\ frame = [t \in Tasks |-> Frame("", <<>>)]
    /\ req = [t \in Tasks |-> PNone]
    /\ pre = [t \in Tasks |-> EmptyKv]
    /\ running = "hub"
    /\ last = NoLast
    /\ lastSet = EmptyKv
    /\ sent = [c \in Conns |-> <<>>]
    /\ wrote = NoWrite

\* ============================================= the connections (Spec)
\* The client of connection c sends one more frame.
ClientSend(c, f) ==
    /\ nframes < MaxFrames
    /\ ~eof[c]
    /\ pc[c] # "CLOSED"
    /\ stream' = [stream EXCEPT ![c] = stream[c] \o f]
    /\ nframes' = nframes + 1
    /\ UNCHANGED <<py, kv, pc, eof, data, out, log, taskVars, codecVars>>

\* The client of connection c closes its side: the stream ends.
ClientClose(c) ==
    /\ ~eof[c]
    /\ pc[c] # "CLOSED"
    /\ eof' = [eof EXCEPT ![c] = TRUE]
    /\ UNCHANGED <<py, kv, pc, stream, data, out, log, nframes, taskVars, codecVars>>

Event(ev, e) == [ev |-> ev, e |-> e]

\* A mutant of DecodeRaised: the loop goes on to the next read after a failure
\* of decoding that is not Disconnect.
DecodeRaisedKeepsReading(c, r) ==
    /\ data' = data
    /\ out' = out
    /\ pc' = [pc EXCEPT ![c] = IF r.e = "Disconnect" THEN "CLOSED" ELSE "AWAITING_REQUEST"]
    /\ log' = [log EXCEPT ![c] = Append(log[c],
                 IF r.e = "Disconnect" THEN Event("disconnect", "")
                 ELSE Event("decode raised", r.e))]

\* A mutant of DecodeRaised: Disconnect is answered like a CommandError, with
\* an Error value, before the handler ends.
DecodeRaisedAnswersDisconnect(c, r) ==
    /\ data' = data
    /\ out' = [out EXCEPT ![c] = out[c] \o write_response(PErr(r.msg), py).bytes]
    /\ pc' = [pc EXCEPT ![c] = "CLOSED"]
    /\ log' = [log EXCEPT ![c] = Append(log[c],
                 IF r.e = "Disconnect" THEN Event("disconnect", "")
                 ELSE Event("decode raised", r.e))]

\* connection_handler, lines 125-128, when handle_request raises: Disconnect
\* ends the loop; any other exception has no except clause and leaves the
\* handler, which ends the greenlet and with it the connection.  Nothing is
\* written either way.
DecodeRaised(c, r) ==
    /\ data' = data
    /\ out' = out
    /\ pc' = [pc EXCEPT ![c] = "CLOSED"]
    /\ log' = [log EXCEPT ![c] = Append(log[c],
                 IF r.e = "Disconnect" THEN Event("disconnect", "")
                 ELSE Event("decode raised", r.e))]

\* connection_handler, line 126, when handle_request returns the request.
Decoded(c, r) ==
    /\ data' = [data EXCEPT ![c] = r.v]
    /\ out' = out
    /\ pc' = [pc EXCEPT ![c] = "DISPATCHING"]
    /\ log' = [log EXCEPT ![c] = Append(log[c], Event("request", ""))]

\* connection_handler, lines 124-128: one request read from the connection.
ReadRequest(c) ==
    /\ pc[c] = "AWAITING_REQUEST"
    /\ LET r == handle_request(stream[c], 1, eof[c], py) IN
       /\ r.k # "block"
       /\ stream' = [stream EXCEPT ![c] = SubSeq(stream[c], r.pos, Len(stream[c]))]
       /\ IF r.k = "val" THEN Decoded(c, r) ELSE DecodeRaised(c, r)
    /\ UNCHANGED <<py, kv, eof, nframes, taskVars, codecVars>>

\* The attributes an instance of Server has.
ServerAttributes ==
    {"_pool", "_server", "_protocol", "_kv", "_commands", "get_commands",
     "connection_handler", "get_response", "get", "set", "delete", "flush",
     "mget", "mset", "run"}

\* The attribute connection_handler calls with the decoded request, line 131.
DispatchAttribute == "get_resonse"

\* connection_handler, lines 130-135: the request dispatched and answered.
\* Only CommandError is caught; looking up an attribute Server does not have
\* raises AttributeError before anything is called.
Dispatch(c) ==
    /\ pc[c] = "DISPATCHING"
    /\ IF DispatchAttribute \notin ServerAttributes
       THEN /\ pc' = [pc EXCEPT ![c] = "CLOSED"]
            /\ log' = [log EXCEPT ![c] = Append(log[c], Event("dispatch raised", "AttributeError"))]
            /\ UNCHANGED <<kv, out>>
       ELSE LET d == get_response(data[c])
                st == IF d.k = "call" THEN RunOp(d.fr, kv, py)
                      ELSE StepTo(d.fr, kv, Raise(d.e, d.msg))
                caught == st.out.k = "exc" /\ st.out.e = "CommandError"
                res == IF caught THEN PErr(st.out.msg) ELSE st.out.v
                w == write_response(res, py)
            IN  /\ kv' = st.kv
                /\ IF st.out.k = "exc" /\ ~caught
                   THEN /\ pc' = [pc EXCEPT ![c] = "CLOSED"]
                        /\ log' = [log EXCEPT ![c] = Append(log[c], Event("dispatch raised", st.out.e))]
                        /\ out' = out
                   ELSE IF w.k = "exc"
                   THEN /\ pc' = [pc EXCEPT ![c] = "CLOSED"]
                        /\ log' = [log EXCEPT ![c] = Append(log[c], Event("write raised", w.e))]
                        /\ out' = out
                   ELSE /\ pc' = [pc EXCEPT ![c] = "AWAITING_REQUEST"]
                        /\ log' = [log EXCEPT ![c] = Append(log[c], Event("response", ""))]
                        /\ out' = [out EXCEPT ![c] = out[c] \o w.bytes]
    /\ UNCHANGED <<py, stream, eof, data, nframes, taskVars, codecVars>>

Next ==
    \/ \E c \in Conns, f \in Frames : ClientSend(c, f)
    \/ \E c \in Conns : ClientClose(c)
    \/ \E c \in Conns : ReadRequest(c)
    \/ \E c \in Conns : Dispatch(c)

Spec == Init /\ [][Next]_vars

\* ==================================== greenlets on the store (StoreSpec)
\* Greenlets that call get_response, as the handlers are written to do, with
\* gevent's scheduling: a greenlet keeps the interpreter until it blocks on its
\* socket, and the store methods never touch a socket.

\* A mutant of YieldsInside: mset blocks between two pairs.
YieldsInsideMset(cmd) == cmd = "MSET"

\* Whether a statement of the store method cmd blocks (switches to the hub):
\* none of them reads or writes a socket or sleeps.
YieldsInside(cmd) == FALSE

\* A greenlet may run when it holds the interpreter or the hub can resume it.
CanRun(t) == running \in {t, "hub"}

\* The keys a write of the store names.
TouchedKeys(cmd, args) ==
    CASE cmd = "MSET" -> {args[2 * i - 1] : i \in 1..NPairs(args)}
      [] cmd \in {"SET", "DELETE"} -> {args[1]}
      [] OTHER -> {}

\* lastSet after the call (cmd, args) ended with result: a SET that returned
\* records its value, every other write forgets the keys it names.
NoteWrite(known, cmd, args, result) ==
    CASE cmd = "SET" /\ result.k = "val" -> KvPut(known, args[1], args[2])
      [] cmd = "FLUSH" -> EmptyKv
      [] cmd \in {"SET", "DELETE", "MSET"} ->
            [x \in (DOMAIN known) \ TouchedKeys(cmd, args) |-> known[x]]
      [] OTHER -> known

\* The call of greenlet t ends with result: it is recorded, and t goes back to
\* its socket with nothing of the call kept.
Complete(t, request, fr, result, before, after) ==
    /\ tpc' = [tpc EXCEPT ![t] = "ready"]
    /\ frame' = [frame EXCEPT ![t] = Frame("", <<>>)]
    /\ req' = [req EXCEPT ![t] = PNone]
    /\ pre' = [pre EXCEPT ![t] = EmptyKv]
    /\ running' = "hub"
    /\ last' = [t |-> t, req |-> request, cmd |-> fr.cmd, args |-> fr.args,
                out |-> result, pre |-> before, post |-> after, known |-> lastSet]
    /\ lastSet' = NoteWrite(lastSet, fr.cmd, fr.args, result)

\* Greenlet t calls get_response(request): lines 137-151 up to the call of the
\* store method, or to the exception raised before it.
Call(t, request) ==
    /\ tpc[t] = "ready"
    /\ running = "hub"
    /\ LET d == get_response(request) IN
       IF d.k = "call"
       THEN /\ tpc' = [tpc EXCEPT ![t] = "run"]
            /\ frame' = [frame EXCEPT ![t] = d.fr]
            /\ req' = [req EXCEPT ![t] = request]
            /\ pre' = [pre EXCEPT ![t] = kv]
            /\ running' = t
            /\ UNCHANGED <<last, lastSet>>
       ELSE Complete(t, request, d.fr, Raise(d.e, d.msg), kv, kv)
    /\ UNCHANGED <<py, kv, connVars, codecVars>>

\* Greenlet t has run one statement of its store method, which left st.
Stepped(t, st) ==
    /\ kv' = st.kv
    /\ IF st.out.k = "run"
       THEN /\ frame' = [frame EXCEPT ![t] = st.fr]
            /\ running' = IF YieldsInside(st.fr.cmd) THEN "hub" ELSE t
            /\ UNCHANGED <<tpc, req, pre, last, lastSet>>
       ELSE Complete(t, req[t], st.fr, st.out, pre[t], st.kv)
    /\ UNCHANGED <<py, connVars, codecVars>>

\* Greenlet t is inside the store method cmd and may run.
Inside(t, cmd) == tpc[t] = "run" /\ frame[t].cmd = cmd /\ CanRun(t)

GetStep(t) ==
    /\ Inside(t, "GET")
    /\ Stepped(t, get_step(frame[t], kv))

SetStep(t) ==
    /\ Inside(t, "SET")
    /\ Stepped(t, set_step(frame[t], kv))

DeleteStep(t) ==
    /\ Inside(t, "DELETE")
    /\ Stepped(t, delete_step(frame[t], kv))

FlushStep(t) ==
    /\ Inside(t, "FLUSH")
    /\ Stepped(t, flush_step(frame[t], kv))

MgetStep(t) ==
    /\ Inside(t, "MGET")
    /\ Stepped(t, mget_step(frame[t], kv))

MsetStep(t) ==
    /\ Inside(t, "MSET")
    /\ Stepped(t, mset_step(frame[t], kv, py))

StoreNext ==
    \/ \E t \in Tasks, request \in Requests : Call(t, request)
    \/ \E t \in Tasks : GetStep(t)
    \/ \E t \in Tasks : SetStep(t)
    \/ \E t \in Tasks : DeleteStep(t)
    \/ \E t \in Tasks : FlushStep(t)
    \/ \E t \in Tasks : MgetStep(t)
    \/ \E t \in Tasks : MsetStep(t)

StoreSpec == Init /\ [][StoreNext]_vars

\* ===================================== the codec on a connection (CodecSpec)
\* The two ends of a connection speak through one ProtocolHandler each: what
\* one end writes with write_response the other reads with handle_request
\* (Client.execute and connection_handler, in both directions).

\* The values handed to write_response: every type _write has a branch for,
\* nested to depth 2, and values of a type it has none for.
Values ==
    { PStr(<<"O","K">>), PStr(<<>>), PInt(5), PInt(0 - 1), PNone,
      PErr(<<"b","o","o","m">>),
      PList(<<>>), PList(<<PInt(1), W("a")>>),
      PList(<<PList(<<PNone, W("b")>>), PInt(2)>>),
      PDict(<<W("a"), PInt(1)>>),
      PDict(<<W("k"), PList(<<W("x"), PInt(7)>>)>>),
      PObject, PList(<<PInt(1), PObject>>), PDict(<<W("a"), PObject>>) }

\* One end of connection c calls write_response(socket_file, v).
WriteResponse(c, v) ==
    /\ Len(sent["c1"]) + Len(sent["c2"]) < MaxWrites
    /\ LET w == write_response(v, py) IN
       /\ stream' = [stream EXCEPT ![c] = stream[c] \o w.bytes]
       /\ sent' = IF w.k = "val" THEN [sent EXCEPT ![c] = Append(sent[c], v)] ELSE sent
       /\ wrote' = [c |-> c, v |-> v, k |-> w.k, bytes |-> w.bytes]
    /\ UNCHANGED <<py, kv, pc, eof, data, out, log, nframes, taskVars>>

\* The other end of connection c calls handle_request(socket_file) and has its
\* value; an exception ends the reader, as it does at line 126 and line 193.
HandleRequest(c) ==
    /\ pc[c] = "AWAITING_REQUEST"
    /\ LET r == handle_request(stream[c], 1, eof[c], py) IN
       /\ r.k # "block"
       /\ stream' = [stream EXCEPT ![c] = SubSeq(stream[c], r.pos, Len(stream[c]))]
       /\ data' = [data EXCEPT ![c] = r.v]
       /\ pc' = [pc EXCEPT ![c] = IF r.k = "val" THEN "AWAITING_REQUEST" ELSE "CLOSED"]
       /\ log' = [log EXCEPT ![c] = Append(log[c],
                    IF r.k = "val" THEN Event("decoded", "")
                    ELSE Event("decode raised", r.e))]
    /\ UNCHANGED <<py, kv, eof, out, nframes, taskVars, codecVars>>

CodecNext ==
    \/ \E c \in Conns, v \in Values : WriteResponse(c, v)
    \/ \E c \in Conns : HandleRequest(c)

CodecSpec == Init /\ [][CodecNext]_vars

\* ================================================================ claims
LastEvent(c) == log[c][Len(log[c])]

\* get_response(d) raises CommandError (no store method raises one).
RaisesCommandError(d) ==
    LET g == get_response(d) IN g.k = "exc" /\ g.e = "CommandError"

\* C1: on every connection, each request the handler has decoded is followed
\* at once by exactly one response, and a response only ever follows a request:
\* the only request without its response is the one being dispatched.
EveryRequestAnswered ==
    \A c \in Conns : \A i \in 1..Len(log[c]) :
        /\ log[c][i].ev = "request" =>
              IF i = Len(log[c]) THEN pc[c] = "DISPATCHING"
              ELSE log[c][i + 1].ev = "response"
        /\ log[c][i].ev = "response" => i > 1 /\ log[c][i - 1].ev = "request"

\* C2: a request whose dispatch raises CommandError is answered with a response
\* (the Error value) and leaves the handler awaiting the next request.
CommandErrorKeepsConnection ==
    \A c \in Conns :
        LET n == Len(log[c]) IN
        (n >= 2 /\ log[c][n - 1].ev = "request" /\ RaisesCommandError(data[c]))
            => LastEvent(c).ev = "response" /\ pc[c] = "AWAITING_REQUEST"

\* C6: no exception raised while a request is dispatched or executed leaves
\* connection_handler.
NoDispatchFailureEscapes ==
    \A c \in Conns : \A i \in 1..Len(log[c]) : log[c][i].ev # "dispatch raised"

\* C4: a failure of decoding other than Disconnect is the last thing the
\* handler does on the connection: nothing is written for it, no request is
\* read after it, and the handler is CLOSED.
DecodeFailureIsFatal ==
    \A c \in Conns : \A i \in 1..Len(log[c]) :
        log[c][i].ev = "decode raised" =>
            /\ i = Len(log[c])
            /\ pc[c] = "CLOSED"
            /\ log[c][i].e # "Disconnect"

\* A bad type tag has closed one connection and a malformed length the other.
DecodeFailureWitness ==
    /\ log["c1"] # <<>> /\ LastEvent("c1") = Event("decode raised", "CommandError")
    /\ log["c2"] # <<>> /\ LastEvent("c2") = Event("decode raised", "ValueError")
    /\ pc["c1"] = "CLOSED" /\ pc["c2"] = "CLOSED"

\* The handler of c takes the step that follows a Disconnect of the decoder.
DisconnectStep(c) ==
    /\ pc[c] = "AWAITING_REQUEST"
    /\ pc'[c] # pc[c]
    /\ LET r == handle_request(stream[c], 1, eof[c], py)
       IN  r.k = "exc" /\ r.e = "Disconnect"

\* C5: at the end of the stream where a type tag is expected the decoder raises
\* Disconnect, and the handler then goes to CLOSED with nothing written, the
\* store as it was, and no Error value made of it.
DisconnectClosesSilently ==
    [][\A c \in Conns :
          /\ (stream[c] = <<>> /\ eof[c]) =>
                handle_request(stream[c], 1, eof[c], py).e = "Disconnect"
          /\ DisconnectStep(c) =>
                /\ pc'[c] = "CLOSED"
                /\ out' = out
                /\ kv' = kv
                /\ log'[c] = Append(log[c], Event("disconnect", ""))]_vars

\* A handler has closed on Disconnect.
DisconnectWitness ==
    \E c \in Conns :
        /\ log[c] # <<>> /\ LastEvent(c).ev = "disconnect"
        /\ pc[c] = "CLOSED" /\ eof[c] /\ out[c] = <<>>

\* C3: no two greenlets are inside a store method at once, and every call ends
\* with the store and the result that the same method gives when it runs alone,
\* start to end, on the store the call found.
AtomicStoreOperations ==
    /\ \A t, u \in Tasks : (t # u /\ tpc[t] = "run") => tpc[u] = "ready"
    /\ last.cmd # "" =>
          LET alone == RunOp(Frame(last.cmd, last.args), last.pre, py)
          IN  last.post = alone.kv /\ last.out = alone.out

\* One greenlet is half way through an MSET, its first pair in the store, while
\* the other, whose MGET ended last, waits at its socket.
AtomicWitness ==
    \E t \in Tasks :
        /\ tpc[t] = "run" /\ frame[t].cmd = "MSET" /\ frame[t].i = 1
        /\ kv # pre[t]
        /\ last.cmd = "MGET" /\ last.t # t

IsStr(v) == v.t = "str"

\* C7: SET of a string key returns 1 and leaves the key holding the value; GET
\* of a key returns the value of the SET of that key that no later SET, MSET,
\* DELETE or FLUSH touched, and None (written as $-1) for a key that is not in
\* the store; GET never raises.
GetAfterSet ==
    /\ (last.cmd = "SET" /\ IsStr(last.args[1])) =>
          /\ last.out = Return(PInt(1))
          /\ last.args[1] \in DOMAIN last.post
          /\ last.post[last.args[1]] = last.args[2]
    /\ (last.cmd = "GET" /\ IsStr(last.args[1])) =>
          /\ last.out.k = "val"
          /\ last.args[1] \in DOMAIN last.known =>
                last.out.v = last.known[last.args[1]]
          /\ last.args[1] \notin DOMAIN last.pre =>
                /\ last.out.v = PNone
                /\ write_response(last.out.v, py) = WOk(<<"$", "-", "1", CR, LF>>)

\* A GET has returned the value of a SET that overwrote an earlier one.
GetAfterSetWitness ==
    /\ last.cmd = "GET"
    /\ last.args[1] \in DOMAIN last.known
    /\ last.out = Return(W("2"))

\* C8: DELETE of a string key returns 1 when the key was in the store and 0
\* when it was not; afterwards the key is not in the store and every other key
\* holds what it held.
DeleteResult ==
    (last.cmd = "DELETE" /\ IsStr(last.args[1])) =>
        LET key == last.args[1] IN
        /\ last.out = Return(PInt(IF key \in DOMAIN last.pre THEN 1 ELSE 0))
        /\ key \notin DOMAIN last.post
        /\ KvGet(last.post, key) = PNone
        /\ DOMAIN last.post = (DOMAIN last.pre) \ {key}
        /\ \A x \in DOMAIN last.post : last.post[x] = last.pre[x]

\* A DELETE has removed a key and left another in the store.
DeleteWitness ==
    /\ last.cmd = "DELETE"
    /\ last.out = Return(PInt(1))
    /\ DOMAIN last.post # {}

\* C9: FLUSH returns the number of keys the store held and leaves it empty, so
\* that every key reads None; every key SET and not written since was in the
\* store and is counted.
FlushResult ==
    last.cmd = "FLUSH" =>
        /\ last.out = Return(PInt(Cardinality(DOMAIN last.pre)))
        /\ last.post = EmptyKv
        /\ \A key \in DOMAIN last.pre : KvGet(last.post, key) = PNone
        /\ DOMAIN last.known \subseteq DOMAIN last.pre
        /\ last.out.v.n >= Cardinality(DOMAIN last.known)

\* A FLUSH has returned 2 after SETs of two distinct keys.
FlushWitness ==
    /\ last.cmd = "FLUSH"
    /\ last.out = Return(PInt(2))
    /\ Cardinality(DOMAIN last.known) = 2

\* The store after the pairs of items are written in order.
RECURSIVE PairsWritten(_, _)
PairsWritten(store, items) ==
    IF Len(items) < 2 THEN store
    ELSE PairsWritten(KvPut(store, items[1], items[2]), SubSeq(items, 3, Len(items)))

\* C10: MSET with an even number of arguments stores every pair and returns
\* the number of pairs; MGET returns the list of the stored value, or None, of
\* each key in the order given.
MsetMgetResults ==
    /\ (last.cmd = "MSET" /\ Len(last.args) % 2 = 0
            /\ \A i \in 1..Len(last.args) : IsStr(last.args[i])) =>
          /\ last.post = PairsWritten(last.pre, last.args)
          /\ last.out = Return(PInt(Len(last.args) \div 2))
    /\ (last.cmd = "MGET" /\ \A i \in 1..Len(last.args) : IsStr(last.args[i])) =>
          last.out = Return(PList([i \in 1..Len(last.args) |->
                                      KvGet(last.pre, last.args[i])]))

\* C11: MSET with an odd number of arguments raises CommandError (which the
\* handler answers with an Error value) and writes no key of the request.
OddMsetIsCommandError ==
    (last.cmd = "MSET" /\ Len(last.args) % 2 = 1) =>
        /\ last.out.k = "exc" /\ last.out.e = "CommandError"
        /\ last.post = last.pre

\* The request names one of GET, SET, DELETE, FLUSH with a number of arguments
\* its method does not take.
WrongArity(d) ==
    /\ d.t = "list" /\ d.xs # <<>> /\ d.xs[1].t = "str"
    /\ StrUpper(d.xs[1].s) \in {GET, SET, DELETE, FLUSH}
    /\ ~ArityOk(CommandName(StrUpper(d.xs[1].s)), Len(d.xs) - 1)

\* C12: a request for GET, SET, DELETE or FLUSH with the wrong number of
\* arguments raises CommandError (which the handler answers with an Error value
\* and survives) and leaves the store as it was.
WrongArityIsCommandError ==
    (last.t # "" /\ WrongArity(last.req)) =>
        /\ last.out.k = "exc" /\ last.out.e = "CommandError"
        /\ last.post = last.pre

\* The bytes w occur in the bytes s.
Contains(s, w) ==
    \E i \in 0..(Len(s) - Len(w)) : SubSeq(s, i + 1, i + Len(w)) = w

\* get_response(d) raises the CommandError of an unrecognized command.
UnknownCommand(d) ==
    LET g == get_response(d) IN
    /\ g.k = "exc" /\ g.e = "CommandError"
    /\ Len(g.msg) > Len(UnrecognizedCommand)
    /\ SubSeq(g.msg, 1, Len(UnrecognizedCommand)) = UnrecognizedCommand

\* The upper-cased command name that get_response(d) does not recognize.
UnknownName(d) ==
    LET g == get_response(d) IN
    SubSeq(g.msg, Len(UnrecognizedCommand) + 1, Len(g.msg))

\* C13: a request whose upper-cased command name is not in the table is
\* answered with bytes that contain that name, and the handler then awaits the
\* next request of the connection.
UnknownCommandNamedInError ==
    \A c \in Conns :
        LET n == Len(log[c]) IN
        (n >= 2 /\ log[c][n - 1].ev = "request" /\ UnknownCommand(data[c])) =>
            /\ LastEvent(c).ev = "response"
            /\ Contains(out[c], UnknownName(data[c]))
            /\ pc[c] = "AWAITING_REQUEST"

\* C14: what handle_request reads from a connection is the value
\* write_response was given, for every value it encodes: the n-th value decoded
\* on a connection is the n-th value written to it, of the same type, with the
\* same elements and pairs in the same order.
RoundTrip ==
    \A c \in Conns :
        LET n == Len(log[c]) IN
        n > 0 => /\ LastEvent(c).ev = "decoded"
                 /\ data[c] = sent[c][n]

\* How many of the first n events of connection c are ev.
Count(c, ev, n) == Cardinality({i \in 1..n : log[c][i].ev = ev})

\* The requests of connection c whose dispatch is over.
DispatchOver(c) ==
    Count(c, "request", Len(log[c])) - (IF pc[c] = "DISPATCHING" THEN 1 ELSE 0)

CloseLeavesOthersServed ==
    \A c, d \in Conns :
        (c # d /\ pc[d] = "CLOSED") =>
            \A i \in 1..Len(log[c]) :
                log[c][i].ev = "request" =>
                    IF i = Len(log[c]) THEN pc[c] = "DISPATCHING"
                    ELSE log[c][i + 1].ev = "response"

\* C17: write_response of an Error puts on the connection "-", the message that
\* Error carries, and the line terminator.
ErrorCarriesMessage ==
    (wrote.c # "" /\ wrote.v.t = "Error") =>
        /\ wrote.k = "val"
        /\ wrote.bytes = <<"-">> \o wrote.v.s \o <<CR, LF>>

\* A step in which write_response was called on connection c with value v.
WriteStep(c, v) ==
    /\ <<sent, wrote>>' # <<sent, wrote>>
    /\ wrote'.c = c /\ wrote'.v = v

\* C20: a call of write_response adds to the connection the whole encoding of
\* its value when _write returns, and not one byte when _write raises, whether
\* for the value itself or for an element nested in it.
ResponseWholeOrNothing ==
    [][\A c \in Conns, v \in Values :
          WriteStep(c, v) =>
              LET w == _write(v, py) IN
              /\ w.k = "val" => stream'[c] = stream[c] \o w.bytes
              /\ w.k = "exc" =>
                    /\ stream'[c] = stream[c]
                    /\ w.e = "CommandError" /\ w.msg = UnrecognizedType
                    /\ wrote'.k = "exc" /\ wrote'.bytes = <<>>]_vars

\* _write has raised for an element inside a list, after it had put the head of
\* the list and an element in its buffer, on a connection that holds, whole and
\* alone, the response written before.
WholeOrNothingWitness ==
    /\ wrote.c # "" /\ wrote.k = "exc"
    /\ wrote.v = PList(<<PInt(1), PObject>>)
    /\ _write(wrote.v, py).bytes # <<>>
    /\ Len(sent[wrote.c]) = 1
    /\ stream[wrote.c] = write_response(sent[wrote.c][1], py).bytes
    /\ stream[wrote.c] # <<>>

\* The arguments get_response takes the request d apart into.
ArgsOf(d) == IF d.t = "list" THEN d.xs ELSE Split(d.s, <<>>, <<>>)

\* The request is what the decoder makes of a bulk string.
FromBulkString(d) ==
    LET r == handle_request(FrameBulk, 1, FALSE, py) IN r.k = "val" /\ r.v = d

\* C18: a request that is an integer, a bulk string, None, an Error or a dict
\* raises CommandError and no store method is called for it; a list or simple
\* string with no argument in it raises the CommandError "Missing command".
OnlyArrayOrSimpleString ==
    last.t # "" =>
        /\ (last.req.t \in {"int", "None", "Error", "dict"} \/ FromBulkString(last.req)) =>
              /\ last.out = Raise("CommandError", MustBeList)
              /\ last.cmd = ""
              /\ last.post = last.pre
        /\ (last.req.t \in {"list", "str"} /\ ArgsOf(last.req) = <<>>) =>
              /\ last.out = Raise("CommandError", MissingCommand)
              /\ last.cmd = ""
              /\ last.post = last.pre

\* C19: a call that raises CommandError (the one outcome answered with an Error
\* value) leaves the store as it found it; a call that changes the store is a
\* SET, DELETE, FLUSH or MSET that returns an int; GET and MGET leave the store
\* as they found it.
OnlyIntegerWritesChangeStore ==
    last.t # "" =>
        /\ (last.out.k = "exc" /\ last.out.e = "CommandError") => last.post = last.pre
        /\ last.post # last.pre =>
              /\ last.cmd \in {"SET", "DELETE", "FLUSH", "MSET"}
              /\ last.out.k = "val" /\ last.out.v.t = "int"
        /\ last.cmd \in {"GET", "MGET"} => last.post = last.pre

====
